---- MODULE Spec2Model ----
(***************************************************************************)
(* utils/plot_benchmark.py of mkbrr: one run of the benchmark plotter.     *)
(* The run is a straight line of steps (argument check, summary.csv check, *)
(* read_csv, system_info.txt, numeric coercion, Worker Label, figure,      *)
(* best indices, palettes, four bar plots, savefig, status line); every    *)
(* step is one action and the program counter pc names the next one.       *)
(*                                                                         *)
(* Text is a sequence of one-character strings, so that startswith, strip, *)
(* the parsing of a cell and str(int(..)) are computed and not assumed.    *)
(* Row indices are zero-based as in pandas; row i is element i + 1.        *)
(***************************************************************************)
EXTENDS Integers, Sequences, FiniteSets, TLC

\* ------------------------------------------------------------------ bounds
MaxRows == 3
MaxLines == 2
MaxArgs == 2

\* ------------------------------------------------------------------ text
Digits == {"0", "1", "2", "3", "4", "5", "6", "7", "8", "9"}
DigitVal(c) ==
    CASE c = "0" -> 0 [] c = "1" -> 1 [] c = "2" -> 2 [] c = "3" -> 3
      [] c = "4" -> 4 [] c = "5" -> 5 [] c = "6" -> 6 [] c = "7" -> 7
      [] c = "8" -> 8 [] c = "9" -> 9
DigitChar(d) == <<"0", "1", "2", "3", "4", "5", "6", "7", "8", "9">>[d + 1]
Whitespace == {" ", "\n", "\t", "\r"}

IsDigits(s) == Len(s) > 0 /\ \A i \in 1..Len(s) : s[i] \in Digits

RECURSIVE ParseInt(_)
ParseInt(s) ==
    IF Len(s) = 0 THEN 0
    ELSE 10 * ParseInt(SubSeq(s, 1, Len(s) - 1)) + DigitVal(s[Len(s)])

\* str(n) of a non-negative int
RECURSIVE DecStr(_)
DecStr(n) ==
    IF n < 10 THEN <<DigitChar(n)>>
    ELSE DecStr(n \div 10) \o <<DigitChar(n % 10)>>

\* line.startswith(prefix)
StartsWith(line, prefix) ==
    /\ Len(line) >= Len(prefix)
    /\ SubSeq(line, 1, Len(prefix)) = prefix

\* line.strip()
RECURSIVE LStrip(_)
LStrip(s) ==
    IF Len(s) > 0 /\ s[1] \in Whitespace THEN LStrip(Tail(s)) ELSE s
RECURSIVE RStrip(_)
RStrip(s) ==
    IF Len(s) > 0 /\ s[Len(s)] \in Whitespace
    THEN RStrip(SubSeq(s, 1, Len(s) - 1)) ELSE s
Strip(s) == LStrip(RStrip(s))

Range(s) == {s[i] : i \in 1..Len(s)}
SeqsUpTo(S, n) == UNION {[1..k -> S] : k \in 0..n}

\* ------------------------------------------------------------------ values
\* A cell of the data frame: a number, NaN (missing), or text in a column that
\* read_csv could not type (dtype object).
Num(n) == [t |-> "num", n |-> n, s |-> <<>>]
NaN == [t |-> "nan", n |-> 0, s |-> <<>>]
Str(s) == [t |-> "str", n |-> 0, s |-> s]
IsNum(v) == v.t = "num"
NotNa(v) == v.t # "nan"

\* ------------------------------------------------------------------ names
SUMMARY_CSV == "summary.csv"
SYSTEM_INFO_TXT == "system_info.txt"
BENCHMARK_PNG == "benchmark_results.png"
PathJoin(dir, name) == <<dir, name>>

OsPrefix == <<"O", "S", ":">>
CpuPrefix == <<"C", "P", "U", ":">>
DrivePrefix == <<"D", "r", "i", "v", "e", " ", "T", "y", "p", "e", ":">>
NAText == <<"N", "/", "A">>
OsDefault == OsPrefix \o <<" ">> \o NAText
CpuDefault == CpuPrefix \o <<" ">> \o NAText
DriveDefault == DrivePrefix \o <<" ">> \o NAText
Separator == <<" ", "|", " ">>

Green == "green"
DefaultColour == "#1f77b4"

Metrics == {"mem", "cpu", "disk", "time"}
NumericCols == {"aw"} \cup Metrics
Columns == {"wc"} \cup NumericCols

\* ------------------------------------------------------------------ inputs
\* Cell texts of summary.csv
Empty == <<>>
Unparseable == <<"x">>
WcCells == {<<"0">>, <<"4">>, Empty}
AwCells == {<<"4">>, Empty, Unparseable}
MetricCells == {<<"5", "0">>, <<"1", "0", "0">>, <<"2", "0", "0">>, Empty}
PlainMetric == <<"5", "0">>

PlainRow(w, a) ==
    [wc |-> w, aw |-> a, mem |-> PlainMetric, cpu |-> PlainMetric,
     disk |-> PlainMetric, time |-> PlainMetric]
\* rows that vary the two worker columns
LabelRows == {PlainRow(w, a) : w \in WcCells, a \in AwCells}
\* rows whose Worker Count is text or 0: the column is read as dtype object
TextCountRows == {PlainRow(w, Empty) : w \in {<<"0">>, Unparseable}}
\* rows that vary two metric columns, one with each cell text and the other
\* with the texts permuted, and two worker counts so that labels can repeat
PairedColumn == [mem |-> "cpu", disk |-> "time"]
RotCell(c) ==
    IF c = <<"5", "0">> THEN <<"1", "0", "0">>
    ELSE IF c = <<"1", "0", "0">> THEN <<"2", "0", "0">>
    ELSE IF c = <<"2", "0", "0">> THEN <<"5", "0">>
    ELSE c
MetricRows(m) ==
    {[PlainRow(w, Empty) EXCEPT ![m] = c, ![PairedColumn[m]] = RotCell(c)] :
        w \in {<<"4">>, <<"1", "6">>}, c \in MetricCells}
Tables ==
    SeqsUpTo(LabelRows, MaxRows)
        \cup SeqsUpTo(TextCountRows, MaxRows)
        \cup UNION {SeqsUpTo(MetricRows(m), MaxRows) : m \in DOMAIN PairedColumn}
SampleTable ==
    <<[PlainRow(<<"0">>, <<"4">>) EXCEPT !.mem = <<"1", "0", "0">>],
      [PlainRow(<<"4">>, Empty) EXCEPT !.disk = <<"2", "0", "0">>]>>

\* Lines of system_info.txt as readlines() returns them
SysInfoLineSet ==
    { OsPrefix \o <<" ", "A", "\n">>,
      OsPrefix \o <<" ", "B", " ", "\n">>,
      <<" ">> \o OsPrefix \o <<" ", "A", "\n">>,
      CpuPrefix \o <<" ", "X", "\n">>,
      <<"C", "P", "U", "s", ":", " ", "8", "\n">>,
      DrivePrefix \o <<" ", "S", "\n">>,
      DrivePrefix \o <<"H">> }
\* only the last line of a file can lack its newline
SysInfoFiles ==
    {f \in SeqsUpTo(SysInfoLineSet, MaxLines) :
        \A i \in 1..(Len(f) - 1) : f[i][Len(f[i])] = "\n"}
SampleSysInfo ==
    <<OsPrefix \o <<" ", "A", "\n">>, CpuPrefix \o <<" ", "X", "\n">>>>

ProgName == "plot_benchmark.py"
Dirs == {"results"}
Argvs == {<<ProgName>> \o a : a \in SeqsUpTo(Dirs, MaxArgs)}
GoodArgv == <<ProgName, "results">>

Input(a, se, t, ie, l) ==
    [argv |-> a, summaryExists |-> se, csv |-> t, sysInfoExists |-> ie,
     lines |-> l]
Inputs ==
    {Input(a, TRUE, SampleTable, TRUE, SampleSysInfo) : a \in Argvs}
    \cup {Input(a, FALSE, <<>>, ie, IF ie THEN SampleSysInfo ELSE <<>>) :
            a \in Argvs, ie \in BOOLEAN}
    \cup {Input(GoodArgv, TRUE, t, FALSE, <<>>) : t \in Tables}
    \cup {Input(GoodArgv, TRUE, SampleTable, TRUE, f) : f \in SysInfoFiles}

\* ------------------------------------------------------------------ state
VARIABLES
    argv,           \* sys.argv
    summaryExists,  \* <results_dir>/summary.csv exists
    csv,            \* its data rows (cell texts)
    sysInfoExists,  \* <results_dir>/system_info.txt exists
    sysInfoLines,   \* its lines
    pc,             \* the next step of the run
    results_dir,
    stdout,         \* the lines printed, in order
    exited,         \* the process has ended
    exitCode,       \* its exit status, once exited
    error,          \* the uncaught exception that ended it, or "none"
    probed,         \* paths given to os.path.exists
    opened,         \* paths opened for reading
    written,        \* paths written, in order
    df,             \* the data frame
    os_info, cpu_info, drive_info,
    labels,         \* df["Worker Label"]
    captions,       \* the two fig.text lines
    best,           \* best_mem_idx, best_cpu_idx, best_disk_idx, best_time_idx
    palette,        \* mem_palette, cpu_palette, disk_read_palette, time_palette
    panels,         \* the bars of the four axes
    completed       \* the steps of plot_benchmark_results that have finished

env == <<argv, summaryExists, csv, sysInfoExists, sysInfoLines>>
info == <<os_info, cpu_info, drive_info>>
io == <<stdout, probed, opened, written>>
frame == <<df, labels>>
figure == <<captions, best, palette, panels>>
vars == <<env, pc, results_dir, exited, exitCode, error, io, info, frame,
          figure, completed>>

Msg(text, path) == [text |-> text, path |-> path]
UsageMsg == Msg("Usage: python plot_benchmark.py <results_directory>", <<>>)
MissingMsg(path) == Msg("Error: Summary file not found at ", path)
SavedMsg(path) == Msg("Plot saved to: ", path)

NoBest == [m \in Metrics |-> NaN]

Init ==
    /\ \E i \in Inputs :
        /\ argv = i.argv
        /\ summaryExists = i.summaryExists
        /\ csv = i.csv
        /\ sysInfoExists = i.sysInfoExists
        /\ sysInfoLines = i.lines
    /\ pc = "main"
    /\ results_dir = ""
    /\ stdout = <<>>
    /\ exited = FALSE
    /\ exitCode = 0
    /\ error = "none"
    /\ probed = {}
    /\ opened = {}
    /\ written = <<>>
    /\ df = <<>>
    /\ os_info = <<>>
    /\ cpu_info = <<>>
    /\ drive_info = <<>>
    /\ labels = <<>>
    /\ captions = <<>>
    /\ best = NoBest
    /\ palette = [m \in Metrics |-> <<>>]
    /\ panels = [m \in Metrics |-> <<>>]
    /\ completed = <<>>

\* sys.exit(code), or the interpreter reaching the end of the script
Exit(code) ==
    /\ pc' = "exit"
    /\ exited' = TRUE
    /\ exitCode' = code

\* an uncaught exception: traceback on stderr, exit status 1
Raise(exc) ==
    /\ Exit(1)
    /\ error' = exc

Goto(step, finished) ==
    /\ pc' = step
    /\ completed' = Append(completed, finished)
    /\ UNCHANGED <<exited, exitCode, error>>

\* ------------------------------------------------------------------ steps
\* Main with the test written "len(sys.argv) < 2"
MainAtLeastOneArg ==
    /\ pc = "main"
    /\ IF Len(argv) < 2
       THEN /\ stdout' = Append(stdout, UsageMsg)
            /\ Exit(1)
            /\ UNCHANGED <<results_dir, error, completed>>
       ELSE /\ results_dir' = argv[2]
            /\ pc' = "check_summary"
            /\ UNCHANGED <<stdout, exited, exitCode, error, completed>>
    /\ UNCHANGED <<env, probed, opened, written, info, frame, figure>>

\* if __name__ == "__main__"
Main ==
    /\ pc = "main"
    /\ IF Len(argv) # 2
       THEN /\ stdout' = Append(stdout, UsageMsg)
            /\ Exit(1)
            /\ UNCHANGED <<results_dir, error, completed>>
       ELSE /\ results_dir' = argv[2]
            /\ pc' = "check_summary"
            /\ UNCHANGED <<stdout, exited, exitCode, error, completed>>
    /\ UNCHANGED <<env, probed, opened, written, info, frame, figure>>

\* CheckSummary without its sys.exit(1)
CheckSummaryNoExit ==
    /\ pc = "check_summary"
    /\ probed' = probed \cup {PathJoin(results_dir, SUMMARY_CSV)}
    /\ stdout' = IF ~summaryExists
                 THEN Append(stdout,
                             MissingMsg(PathJoin(results_dir, SUMMARY_CSV)))
                 ELSE stdout
    /\ pc' = "read_csv"
    /\ UNCHANGED <<exited, exitCode, error, completed>>
    /\ UNCHANGED <<env, results_dir, opened, written, info, frame, figure>>

\* summary_path = join(results_dir, "summary.csv"); exit 1 when it is absent
CheckSummary ==
    /\ pc = "check_summary"
    /\ probed' = probed \cup {PathJoin(results_dir, SUMMARY_CSV)}
    /\ IF ~summaryExists
       THEN /\ stdout' =
                Append(stdout, MissingMsg(PathJoin(results_dir, SUMMARY_CSV)))
            /\ Exit(1)
            /\ UNCHANGED <<error, completed>>
       ELSE /\ pc' = "read_csv"
            /\ UNCHANGED <<stdout, exited, exitCode, error, completed>>
    /\ UNCHANGED <<env, results_dir, opened, written, info, frame, figure>>

\* pd.read_csv types a column: int64 when every cell is an integer, float64
\* with NaN for the empty cells, object (the cells stay text) when some cell
\* is not a number
ColumnIsObject(table, col) ==
    \E i \in 1..Len(table) :
        table[i][col] # Empty /\ ~IsDigits(table[i][col])
ReadCell(table, i, col) ==
    IF table[i][col] = Empty THEN NaN
    ELSE IF ColumnIsObject(table, col) THEN Str(table[i][col])
    ELSE Num(ParseInt(table[i][col]))
ReadCsvTable(table) ==
    [i \in 1..Len(table) |-> [col \in Columns |-> ReadCell(table, i, col)]]

ReadCsv ==
    /\ pc = "read_csv"
    /\ opened' = opened \cup {PathJoin(results_dir, SUMMARY_CSV)}
    /\ df' = ReadCsvTable(csv)
    /\ Goto("sys_info", "load")
    /\ UNCHANGED <<env, results_dir, stdout, probed, written, info, labels,
                   figure>>

\* the loop with the first matching line kept instead of the last
RECURSIVE ParseSysInfoFirstWins(_, _)
ParseSysInfoFirstWins(lines, acc) ==
    IF lines = <<>> THEN acc
    ELSE LET line == lines[Len(lines)]
             rest == SubSeq(lines, 1, Len(lines) - 1)
             next ==
                IF StartsWith(line, OsPrefix)
                THEN [acc EXCEPT !.os = Strip(line)]
                ELSE IF StartsWith(line, CpuPrefix)
                THEN [acc EXCEPT !.cpu = Strip(line)]
                ELSE IF StartsWith(line, DrivePrefix)
                THEN [acc EXCEPT !.drive = Strip(line)]
                ELSE acc
         IN ParseSysInfoFirstWins(rest, next)

\* the for loop over the lines of system_info.txt
RECURSIVE ParseSysInfo(_, _)
ParseSysInfo(lines, acc) ==
    IF lines = <<>> THEN acc
    ELSE LET line == Head(lines)
             next ==
                IF StartsWith(line, OsPrefix)
                THEN [acc EXCEPT !.os = Strip(line)]
                ELSE IF StartsWith(line, CpuPrefix)
                THEN [acc EXCEPT !.cpu = Strip(line)]
                ELSE IF StartsWith(line, DrivePrefix)
                THEN [acc EXCEPT !.drive = Strip(line)]
                ELSE acc
         IN ParseSysInfo(Tail(lines), next)
SysInfoDefaults == [os |-> OsDefault, cpu |-> CpuDefault, drive |-> DriveDefault]

ReadSysInfo ==
    /\ pc = "sys_info"
    /\ probed' = probed \cup {PathJoin(results_dir, SYSTEM_INFO_TXT)}
    /\ opened' = IF sysInfoExists
                 THEN opened \cup {PathJoin(results_dir, SYSTEM_INFO_TXT)}
                 ELSE opened
    /\ LET parsed == IF sysInfoExists
                     THEN ParseSysInfo(sysInfoLines, SysInfoDefaults)
                     ELSE SysInfoDefaults
       IN /\ os_info' = parsed.os
          /\ cpu_info' = parsed.cpu
          /\ drive_info' = parsed.drive
    /\ Goto("coerce", "system_info")
    /\ UNCHANGED <<env, results_dir, stdout, written, frame, figure>>

\* pd.to_numeric(value, errors="coerce")
ToNumeric(v) ==
    IF v.t = "str"
    THEN IF IsDigits(v.s) THEN Num(ParseInt(v.s)) ELSE NaN
    ELSE v

\* for col in numeric_cols: df[col] = pd.to_numeric(df[col], errors="coerce")
Coerce ==
    /\ pc = "coerce"
    /\ df' = [i \in 1..Len(df) |->
                [col \in Columns |->
                    IF col \in NumericCols THEN ToNumeric(df[i][col])
                    ELSE df[i][col]]]
    /\ Goto("label", "coerce")
    /\ UNCHANGED <<env, results_dir, io, info, labels, figure>>

\* int(value): ValueError for NaN and for text that is not a number
PyInt(v) ==
    IF v.t = "num" THEN [ok |-> TRUE, n |-> v.n]
    ELSE IF v.t = "str" /\ IsDigits(v.s) THEN [ok |-> TRUE, n |-> ParseInt(v.s)]
    ELSE [ok |-> FALSE, n |-> 0]

AutoLabel(actual_str) ==
    <<"A", "u", "t", "o", " ", "(">> \o actual_str \o <<")">>

\* create_label(row): the label, or ok = FALSE when the call raises
create_label(row) ==
    IF row.wc = Num(0)
    THEN [ok |-> TRUE,
          label |-> AutoLabel(IF NotNa(row.aw)
                              THEN DecStr(PyInt(row.aw).n)
                              ELSE NAText)]
    ELSE [ok |-> PyInt(row.wc).ok, label |-> DecStr(PyInt(row.wc).n)]

\* df["Worker Label"] = df.apply(create_label, axis=1).  On a frame with no
\* rows apply returns a frame, and whether the assignment accepts it depends on
\* the pandas release: both outcomes are kept.
CreateLabels ==
    /\ pc = "label"
    /\ IF \E i \in 1..Len(df) : ~create_label(df[i]).ok
       THEN /\ Raise("ValueError")
            /\ UNCHANGED <<labels, completed>>
       ELSE \E accepted \in (IF Len(df) = 0 THEN BOOLEAN ELSE {TRUE}) :
              IF accepted
              THEN /\ labels' = [i \in 1..Len(df) |-> create_label(df[i]).label]
                   /\ Goto("figure", "labels")
              ELSE /\ Raise("ValueError")
                   /\ UNCHANGED <<labels, completed>>
    /\ UNCHANGED <<env, results_dir, io, info, df, figure>>

\* Figure with the savefig call moved up, ahead of the best indices
FigureSavesEarly ==
    /\ pc = "figure"
    /\ captions' = <<os_info \o Separator \o cpu_info, drive_info>>
    /\ written' = Append(written, PathJoin(results_dir, BENCHMARK_PNG))
    /\ Goto("best", "figure")
    /\ UNCHANGED <<env, results_dir, stdout, probed, opened, info, frame, best,
                   palette, panels>>

\* system_info_display = f"{os_info} | {cpu_info}"
SystemInfoDisplay == os_info \o Separator \o cpu_info
\* plt.subplots, suptitle and the two fig.text captions
Figure ==
    /\ pc = "figure"
    /\ captions' = <<SystemInfoDisplay, drive_info>>
    /\ Goto("best", "figure")
    /\ UNCHANGED <<env, results_dir, io, info, frame, best, palette, panels>>

Column(frame_, col) == [i \in 1..Len(frame_) |-> frame_[i][col]]
\* the positions that hold a value (skipna)
Present(col) == {i \in 1..Len(col) : IsNum(col[i])}

\* idxmin taking the last occurrence of the least value
IdxMinLast(col) ==
    IF {i \in 1..Len(col) : col[i].t = "num"} = {} THEN NaN
    ELSE LET present == {i \in 1..Len(col) : col[i].t = "num"}
         IN Num((CHOOSE i \in present :
                    /\ \A j \in present : col[i].n <= col[j].n
                    /\ \A j \in present : j > i => col[j].n # col[i].n) - 1)

\* Series.idxmin(): the index of the first occurrence of the least value, NaN
\* skipped; NaN here stands for "no index"
IdxMin(col) ==
    IF Present(col) = {} THEN NaN
    ELSE Num((CHOOSE i \in Present(col) :
                /\ \A j \in Present(col) : col[i].n <= col[j].n
                /\ \A j \in Present(col) : j < i => col[j].n # col[i].n) - 1)
\* Series.idxmax()
IdxMax(col) ==
    IF Present(col) = {} THEN NaN
    ELSE Num((CHOOSE i \in Present(col) :
                /\ \A j \in Present(col) : col[i].n >= col[j].n
                /\ \A j \in Present(col) : j < i => col[j].n # col[i].n) - 1)

\* the four indices with idxmin used for the disk column too
BestIndicesAllMin(frame_) ==
    [m \in Metrics |-> IdxMin(Column(frame_, m))]

BestIndices(frame_) ==
    [m \in Metrics |->
        IF m = "disk" THEN IdxMax(Column(frame_, m))
        ELSE IdxMin(Column(frame_, m))]

\* best_mem_idx .. best_time_idx.  idxmin of a series with no rows raises;
\* on a column of NaN only it raises or returns NaN, by pandas release.
FindBest ==
    /\ pc = "best"
    /\ IF Len(df) = 0
       THEN /\ Raise("ValueError")
            /\ UNCHANGED <<best, completed>>
       ELSE \E returnsNaN \in
                (IF \E m \in Metrics : Present(Column(df, m)) = {}
                 THEN BOOLEAN ELSE {TRUE}) :
              IF returnsNaN
              THEN /\ best' = BestIndices(df)
                   /\ Goto("palette", "best")
              ELSE /\ Raise("ValueError")
                   /\ UNCHANGED <<best, completed>>
    /\ UNCHANGED <<env, results_dir, io, info, frame, captions, palette,
                   panels>>

\* "green" if i == best_idx else "#1f77b4"
BarColour(i, best_idx) ==
    IF Num(i) = best_idx THEN Green ELSE DefaultColour

\* {label: colour for i, label in enumerate(labels)}: a later row with the
\* same label replaces the entry of an earlier one
RECURSIVE DictComprehension(_, _, _, _)
DictComprehension(labs, best_idx, k, d) ==
    IF k > Len(labs) THEN d
    ELSE DictComprehension(labs, best_idx, k + 1,
            (labs[k] :> BarColour(k - 1, best_idx)) @@ d)
Palette(labs, best_idx) == DictComprehension(labs, best_idx, 1, <<>>)

Palettes ==
    /\ pc = "palette"
    /\ palette' = [m \in Metrics |-> Palette(labels, best[m])]
    /\ Goto("plot", "palettes")
    /\ UNCHANGED <<env, results_dir, io, info, frame, captions, best, panels>>

\* the category levels of a text column: its values in order of first
\* appearance
RECURSIVE Levels(_)
Levels(labs) ==
    IF labs = <<>> THEN <<>>
    ELSE LET front == Levels(SubSeq(labs, 1, Len(labs) - 1))
             last == labs[Len(labs)]
         IN IF last \in Range(front) THEN front ELSE Append(front, last)

RECURSIVE SumOf(_, _)
SumOf(col, rows) ==
    IF rows = {} THEN 0
    ELSE LET i == CHOOSE r \in rows : TRUE
         IN col[i].n + SumOf(col, rows \ {i})

\* sns.barplot(y="Worker Label", x=<metric>, hue="Worker Label",
\* palette=<palette>): the rows are grouped by label, rows whose value is
\* missing are dropped, each group with a row left gets one bar of the mean
\* (sum / n) coloured palette[label]; bars follow the order of the levels
RECURSIVE BarsOf(_, _, _, _)
BarsOf(levels, labs, col, pal) ==
    IF levels = <<>> THEN <<>>
    ELSE LET l == Head(levels)
             rows == {i \in Present(col) : labs[i] = l}
             rest == BarsOf(Tail(levels), labs, col, pal)
         IN IF rows = {} THEN rest
            ELSE <<[label |-> l, sum |-> SumOf(col, rows),
                    n |-> Cardinality(rows), rows |-> {i - 1 : i \in rows},
                    colour |-> pal[l]]>> \o rest
BarPlot(frame_, labs, m, pal) ==
    BarsOf(Levels(labs), labs, Column(frame_, m), pal)

\* Plot 1 .. Plot 4
Plot ==
    /\ pc = "plot"
    /\ panels' = [m \in Metrics |-> BarPlot(df, labels, m, palette[m])]
    /\ Goto("save", "panels")
    /\ UNCHANGED <<env, results_dir, io, info, frame, captions, best, palette>>

\* plt.tight_layout; plt.savefig(output_path)
SaveFig ==
    /\ pc = "save"
    /\ written' = Append(written, PathJoin(results_dir, BENCHMARK_PNG))
    /\ Goto("print", "save")
    /\ UNCHANGED <<env, results_dir, stdout, probed, opened, info, frame,
                   figure>>

\* print(f"Plot saved to: {output_path}"), then the script ends
PrintSaved ==
    /\ pc = "print"
    /\ stdout' = Append(stdout, SavedMsg(PathJoin(results_dir, BENCHMARK_PNG)))
    /\ Exit(0)
    /\ completed' = Append(completed, "print")
    /\ UNCHANGED <<env, results_dir, error, probed, opened, written, info,
                   frame, figure>>

Next ==
    \/ Main
    \/ CheckSummary
    \/ ReadCsv
    \/ ReadSysInfo
    \/ Coerce
    \/ CreateLabels
    \/ Figure
    \/ FindBest
    \/ Palettes
    \/ Plot
    \/ SaveFig
    \/ PrintSaved

Spec == Init /\ [][Next]_vars

\* ================================================================== claims
\* What the input files say, read straight from their text
Done(step) == step \in Range(completed)
HasValue(i, col) == IsDigits(csv[i][col])
Value(i, col) == ParseInt(csv[i][col])
Rows == 1..Len(csv)
\* the directory named on the command line, when one is
DirArg == IF Len(argv) >= 2 THEN argv[2] ELSE ""
SummaryPath == <<DirArg, "summary.csv">>
SysInfoPath == <<DirArg, "system_info.txt">>
PngPath == <<DirArg, "benchmark_results.png">>
StatusLine == [text |-> "Plot saved to: ", path |-> PngPath]
CountOf(seq, x) == Cardinality({i \in 1..Len(seq) : seq[i] = x})
\* a table the data model of the spec describes: at least one row, integer
\* Worker Counts, a value in every metric column
WellFormedTable ==
    /\ Len(csv) > 0
    /\ \A i \in Rows : HasValue(i, "wc")
    /\ \A m \in Metrics : \E i \in Rows : HasValue(i, m)
AutoNA == <<"A", "u", "t", "o", " ", "(", "N", "/", "A", ")">>
Auto4 == <<"A", "u", "t", "o", " ", "(", "4", ")">>

ExpectedLabel(i) ==
    IF HasValue(i, "wc") /\ Value(i, "wc") = 0
    THEN IF HasValue(i, "aw")
         THEN <<"A", "u", "t", "o", " ", "(">> \o DecStr(Value(i, "aw")) \o <<")">>
         ELSE AutoNA
    ELSE DecStr(Value(i, "wc"))

\* C1: once the table is loaded and coerced, every row has exactly one Worker
\* Label: "Auto (N)" / "Auto (N/A)" for Worker Count 0 by Actual Workers, the
\* decimal string of Worker Count for every other row.
C1_EveryRowLabelled ==
    (Done("coerce") /\ pc # "label") =>
        /\ Len(labels) = Len(csv)
        /\ \A i \in Rows :
            HasValue(i, "wc") => labels[i] = ExpectedLabel(i)

\* The part of C1 the code does keep: when every Worker Count cell is an
\* integer the labels are the claimed ones.
LabelsOfIntegerCounts ==
    (Done("coerce") /\ pc # "label" /\ Len(csv) > 0
        /\ \A i \in Rows : HasValue(i, "wc")) =>
        /\ Done("labels")
        /\ Len(labels) = Len(csv)
        /\ \A i \in Rows : labels[i] = ExpectedLabel(i)
LabelsOfIntegerCountsReached ==
    /\ Done("labels")
    /\ \E i, j, k \in Rows :
        /\ csv[i].wc = <<"0">> /\ csv[i].aw = <<"4">> /\ labels[i] = Auto4
        /\ csv[j].wc = <<"0">> /\ csv[j].aw = Empty /\ labels[j] = AutoNA
        /\ csv[k].wc = <<"4">> /\ csv[k].aw = <<"4">> /\ labels[k] = <<"4">>

\* C2: on a table with all its columns (and a value left in every metric
\* column), a malformed cell in any numeric field, Worker Count included,
\* never fails the run: the run ends with the image written.
C2_MalformedCellsNeverFail ==
    (/\ exited
     /\ Len(argv) = 2
     /\ summaryExists
     /\ Len(csv) > 0
     /\ \A m \in Metrics : \E i \in Rows : HasValue(i, m)) =>
        /\ error = "none"
        /\ written = <<PngPath>>

\* C3: for each metric with a value in some row, the computed index is the
\* zero-based position of a row that has a value, and that value is the least
\* of the column (the greatest for Max Disk Read).
C3_BestIndex ==
    Done("best") =>
        \A m \in Metrics :
            (\E i \in Rows : HasValue(i, m)) =>
                /\ best[m].t = "num"
                /\ best[m].n + 1 \in Rows
                /\ HasValue(best[m].n + 1, m)
                /\ \A j \in Rows :
                    HasValue(j, m) =>
                        IF m = "disk"
                        THEN Value(best[m].n + 1, m) >= Value(j, m)
                        ELSE Value(best[m].n + 1, m) <= Value(j, m)
\* memory 100, 50, 200 gives index 1
C3_BestIndexReached ==
    /\ Done("best")
    /\ Len(csv) = 3
    /\ csv[1].mem = <<"1", "0", "0">>
    /\ csv[2].mem = <<"5", "0">>
    /\ csv[3].mem = <<"2", "0", "0">>
    /\ csv[1].cpu = <<"2", "0", "0">>
    /\ csv[2].cpu = <<"1", "0", "0">>
    /\ csv[3].cpu = <<"5", "0">>
    /\ best["mem"] = Num(1)
    /\ best["cpu"] = Num(2)
    /\ best["disk"] = Num(0)

\* C4: in every panel the bar of the row at the best-of index is green and
\* the bar of every other row has the default colour, also when two rows
\* have the same Worker Label.
C4_HighlightByRow ==
    Done("panels") =>
        \A m \in Metrics :
            best[m].t = "num" =>
                \A k \in 1..Len(panels[m]) :
                    \A i \in panels[m][k].rows :
                        panels[m][k].colour =
                            IF i = best[m].n THEN "green" ELSE "#1f77b4"

\* C5: with summary.csv absent the run prints the error with the expected
\* path and exits with code 1, before system_info.txt is looked at, before any
\* processing, and with nothing written.
C5_MissingSummary ==
    (Len(argv) = 2 /\ ~summaryExists) =>
        /\ pc \in {"main", "check_summary", "exit"}
        /\ completed = <<>>
        /\ opened = {}
        /\ SysInfoPath \notin probed
        /\ df = <<>>
        /\ written = <<>>
        /\ exited =>
            /\ exitCode = 1
            /\ stdout = <<[text |-> "Error: Summary file not found at ",
                           path |-> SummaryPath]>>
C5_MissingSummaryReached ==
    /\ exited
    /\ Len(argv) = 2
    /\ ~summaryExists
    /\ sysInfoExists

AllSteps ==
    <<"load", "system_info", "coerce", "labels", "figure", "best", "palettes",
      "panels", "save", "print">>
\* C6: benchmark_results.png is the only file written, at most once and only
\* after loading, coercion, labels, system info, best indices and the panels;
\* the status line is printed once and only after the write; a run that ends
\* on an error has written nothing and printed no status line.
C6_AllOrNothing ==
    /\ written \in {<<>>, <<PngPath>>}
    /\ written # <<>> =>
        /\ Len(completed) >= 9
        /\ SubSeq(completed, 1, 9) = SubSeq(AllSteps, 1, 9)
    /\ CountOf(stdout, StatusLine) <= 1
    /\ CountOf(stdout, StatusLine) = 1 => written = <<PngPath>>
    /\ exited =>
        \/ /\ written = <<PngPath>>
           /\ completed = AllSteps
           /\ CountOf(stdout, StatusLine) = 1
           /\ error = "none"
        \/ /\ written = <<>>
           /\ CountOf(stdout, StatusLine) = 0
           /\ exitCode = 1
C6_AllOrNothingReached ==
    /\ exited
    /\ written = <<PngPath>>
    /\ stdout = <<StatusLine>>

\* the lines of the file that start with a prefix
Matching(prefix) ==
    {i \in 1..Len(sysInfoLines) : StartsWith(sysInfoLines[i], prefix)}
ExpectedField(prefix, default) ==
    IF sysInfoExists /\ Matching(prefix) # {}
    THEN Strip(sysInfoLines[CHOOSE i \in Matching(prefix) :
                                \A j \in Matching(prefix) : j <= i])
    ELSE default
\* C7: each of the three fields is the trimmed text of the last line that
\* starts with its prefix, or its default when there is none or no file; a
\* missing file is no error, the captions are then "OS: N/A | CPU: N/A" and
\* "Drive Type: N/A", and the image is produced.
C7_SystemInfo ==
    /\ (Done("load") /\ pc # "sys_info") => Done("system_info")
    /\ Done("system_info") =>
        /\ os_info = ExpectedField(<<"O", "S", ":">>,
                        <<"O", "S", ":", " ", "N", "/", "A">>)
        /\ cpu_info = ExpectedField(<<"C", "P", "U", ":">>,
                        <<"C", "P", "U", ":", " ", "N", "/", "A">>)
        /\ drive_info =
            ExpectedField(<<"D", "r", "i", "v", "e", " ", "T", "y", "p", "e", ":">>,
                <<"D", "r", "i", "v", "e", " ", "T", "y", "p", "e", ":", " ",
                  "N", "/", "A">>)
    /\ (~sysInfoExists /\ Done("figure")) =>
        captions =
            << <<"O", "S", ":", " ", "N", "/", "A", " ", "|", " ",
                 "C", "P", "U", ":", " ", "N", "/", "A">>,
               <<"D", "r", "i", "v", "e", " ", "T", "y", "p", "e", ":", " ",
                 "N", "/", "A">> >>
    /\ (~sysInfoExists /\ exited /\ Len(argv) = 2 /\ summaryExists
            /\ WellFormedTable) => written = <<PngPath>>
\* a repeated key: the later line wins and loses its trailing blanks
C7_SystemInfoReached ==
    /\ exited
    /\ written = <<PngPath>>
    /\ Len(sysInfoLines) = 2
    /\ sysInfoLines[1] = <<"O", "S", ":", " ", "A", "\n">>
    /\ sysInfoLines[2] = <<"O", "S", ":", " ", "B", " ", "\n">>
    /\ os_info = <<"O", "S", ":", " ", "B">>
    /\ captions[1] = <<"O", "S", ":", " ", "B", " ", "|", " ",
                       "C", "P", "U", ":", " ", "N", "/", "A">>

\* C8: a wrong argument count prints the usage message and exits 1 without a
\* file being touched; a missing summary file exits 1 with its own message; a
\* run that saves the image exits 0; well-formed inputs end in no other way.
C8_ExitOutcomes ==
    /\ Len(argv) # 2 =>
        /\ pc \in {"main", "exit"}
        /\ probed = {} /\ opened = {} /\ written = <<>>
    /\ exited =>
        /\ Len(argv) # 2 =>
            /\ exitCode = 1
            /\ stdout =
                <<[text |-> "Usage: python plot_benchmark.py <results_directory>",
                   path |-> <<>>]>>
        /\ (Len(argv) = 2 /\ ~summaryExists) =>
            /\ exitCode = 1
            /\ stdout = <<[text |-> "Error: Summary file not found at ",
                           path |-> SummaryPath]>>
        /\ written # <<>> => exitCode = 0
        /\ (Len(argv) = 2 /\ summaryExists /\ WellFormedTable) =>
            /\ written = <<PngPath>>
            /\ exitCode = 0
C8_ExitOutcomesReached ==
    /\ exited
    /\ Len(argv) = 3
    /\ ~summaryExists
    /\ exitCode = 1
    /\ Len(stdout) = 1

\* C9: every panel has one bar per input row, in the order of the rows, also
\* when two rows have the same Worker Label (here: on tables with a value in
\* every metric cell).
C9_OneBarPerRow ==
    (Done("panels") /\ \A i \in Rows : \A m \in Metrics : HasValue(i, m)) =>
        \A m \in Metrics :
            /\ Len(panels[m]) = Len(csv)
            /\ \A k \in 1..Len(panels[m]) : panels[m][k].rows = {k - 1}

Extremal(m) ==
    LET valued == {i \in Rows : HasValue(i, m)}
        val == [i \in valued |-> Value(i, m)]
    IN {i \in valued :
            \A j \in valued :
                IF m = "disk" THEN val[i] >= val[j] ELSE val[i] <= val[j]}
First(S) == CHOOSE i \in S : \A j \in S : i <= j
\* C10: when several rows share the extremal value of a metric, the best-of
\* index is the first of them in input order; a later tied row is not the
\* best row, and its label maps to the default colour unless it is the label
\* of the best row.
C10_FirstOfTies ==
    Done("palettes") =>
        \A m \in Metrics :
            LET tied == Extremal(m)
                first == First(tied)
            IN tied # {} =>
                /\ best[m] = Num(first - 1)
                /\ \A j \in tied \ {first} :
                    /\ Num(j - 1) # best[m]
                    /\ labels[j] # labels[first] =>
                        palette[m][labels[j]] = "#1f77b4"
C10_FirstOfTiesReached ==
    /\ Done("palettes")
    /\ Len(csv) = 3
    /\ csv[1].mem = <<"1", "0", "0">>
    /\ csv[2].mem = <<"5", "0">>
    /\ csv[3].mem = <<"5", "0">>
    /\ csv[2].wc # csv[3].wc
    /\ best["mem"] = Num(1)
    /\ palette["mem"][labels[2]] = "green"
    /\ palette["mem"][labels[3]] = "#1f77b4"

====
